---------------------------- MODULE Spec2Model ----------------------------
(***************************************************************************)
(* Model of library/bedrock_prompt.py: the Ansible module that sends one   *)
(* prompt to AWS Bedrock.  run_module is modelled as a sequential program  *)
(* whose position is pc; the remote service, the SDK and the automation    *)
(* framework are the environment: the SDK either raises or returns a body, *)
(* the body either parses as JSON or does not, exit_json / fail_json       *)
(* report and end the process by raising SystemExit.                       *)
(*                                                                         *)
(* JSON values (what json.loads returns, what json.dumps takes) are        *)
(* tagged records:                                                         *)
(*   [k |-> "null"]  [k |-> "bool", b]  [k |-> "int", n]                    *)
(*   [k |-> "float", lex]  [k |-> "str", s]  [k |-> "list", items]          *)
(*   [k |-> "dict", members]   members: sequence of [key, val], keys       *)
(*   distinct, in insertion order (as Python dicts keep them).             *)
(***************************************************************************)
EXTENDS Integers, Sequences, FiniteSets, TLC

VARIABLES
    pc,            \* position in run_module
    check_mode,    \* module.check_mode
    params,        \* module.params
    prompt,        \* local, bound at line 77
    model_id,      \* local, bound at line 78
    region,        \* local, bound at line 79
    max_tokens,    \* local, bound at line 80
    result,        \* the result dict
    body,          \* local: the serialized request
    response,      \* what invoke_model returned (its body, read)
    response_body, \* local: json.loads of the body
    exc,           \* the exception in flight / last raised
    raised_at,     \* where exc was raised
    clients,       \* boto3.client calls made, in order
    calls,         \* invoke_model calls made, in order
    reports,       \* exit_json / fail_json reports, in order
    escaped        \* an exception other than SystemExit left run_module

vars == <<pc, check_mode, params, prompt, model_id, region, max_tokens, result,
          body, response, response_body, exc, raised_at, clients, calls,
          reports, escaped>>

-----------------------------------------------------------------------------
(* Bounds of the model *)

\* model identifiers are a core with at most MaxPad characters around it
MaxPad == 1
\* explicit max_tokens arguments are 1..MaxTokensArg
MaxTokensArg == 1
\* content lists of the generated responses hold at most MaxContent entries
MaxContent == 2

-----------------------------------------------------------------------------
(* JSON values *)

JNull == [k |-> "null"]
JBool(b) == [k |-> "bool", b |-> b]
JInt(n) == [k |-> "int", n |-> n]
JFloat(lex) == [k |-> "float", lex |-> lex]
JStr(s) == [k |-> "str", s |-> s]
JList(items) == [k |-> "list", items |-> items]
JDict(members) == [k |-> "dict", members |-> members]
Member(key, val) == [key |-> key, val |-> val]

\* Python's type name of a JSON value, as exception messages print it
TypeName(v) ==
    CASE v.k = "null" -> "NoneType"
      [] v.k = "bool" -> "bool"
      [] v.k = "int" -> "int"
      [] v.k = "float" -> "float"
      [] v.k = "str" -> "str"
      [] v.k = "list" -> "list"
      [] v.k = "dict" -> "dict"


-----------------------------------------------------------------------------
(* Python strings *)

\* Python's  sub in s  on two strings: sub occurs in s as a substring
StrContains(s, sub) ==
    \E i \in 1..(Len(s) - Len(sub) + 1) : SubSeq(s, i, i + Len(sub) - 1) = sub

Digit(d) == SubSeq("0123456789", d + 1, d + 1)

RECURSIVE NatStr(_)
NatStr(n) == IF n < 10 THEN Digit(n) ELSE NatStr(n \div 10) \o Digit(n % 10)

\* str(n) / json's rendering of a Python int
IntStr(n) == IF n < 0 THEN "-" \o NatStr(-n) ELSE NatStr(n)

\* json.dumps of one character of a str (ensure_ascii; the model's strings
\* are printable ASCII plus newline and tab)
EscapeChar(c) ==
    CASE c = "\"" -> "\\\""
      [] c = "\\" -> "\\\\"
      [] c = "\n" -> "\\n"
      [] c = "\t" -> "\\t"
      [] OTHER -> c

\* the characters lo..hi of s, each escaped (split in halves, which keeps
\* the evaluation shallow)
RECURSIVE EscapeRange(_, _, _)
EscapeRange(s, lo, hi) ==
    IF lo > hi THEN ""
    ELSE IF lo = hi THEN EscapeChar(SubSeq(s, lo, lo))
    ELSE LET mid == (lo + hi) \div 2
         IN  EscapeRange(s, lo, mid) \o EscapeRange(s, mid + 1, hi)

\* json.dumps of a str
JsonStr(s) == "\"" \o EscapeRange(s, 1, Len(s)) \o "\""

RECURSIVE Spaces(_)
Spaces(n) == IF n <= 0 THEN "" ELSE " " \o Spaces(n - 1)

-----------------------------------------------------------------------------
(* json.dumps(v) and json.dumps(v, indent=n) *)

\* indent = NoIndent is Python's indent=None: items are separated by ", " on
\* one line; with an indent every item is on a line of its own, indented by
\* indent * level spaces, and the closing bracket by indent * (level - 1).
\* Empty containers are "[]" and "{}" in both forms.
NoIndent == -1

NewlineIndent(indent, level) == "\n" \o Spaces(indent * level)

ItemSeparator(indent, level) ==
    IF indent = NoIndent THEN ", " ELSE "," \o NewlineIndent(indent, level)

OpenBracket(br, indent, level) ==
    IF indent = NoIndent THEN br ELSE br \o NewlineIndent(indent, level)

CloseBracket(br, indent, level) ==
    IF indent = NoIndent THEN br ELSE NewlineIndent(indent, level - 1) \o br

RECURSIVE Dumps(_, _, _)
RECURSIVE DumpItems(_, _, _, _)
RECURSIVE DumpMembers(_, _, _, _)

DumpItems(items, i, indent, level) ==
    IF i > Len(items) THEN ""
    ELSE (IF i > 1 THEN ItemSeparator(indent, level) ELSE "")
         \o Dumps(items[i], indent, level)
         \o DumpItems(items, i + 1, indent, level)

DumpMembers(members, i, indent, level) ==
    IF i > Len(members) THEN ""
    ELSE (IF i > 1 THEN ItemSeparator(indent, level) ELSE "")
         \o JsonStr(members[i].key) \o ": "
         \o Dumps(members[i].val, indent, level)
         \o DumpMembers(members, i + 1, indent, level)

Dumps(v, indent, level) ==
    CASE v.k = "null" -> "null"
      [] v.k = "bool" -> (IF v.b THEN "true" ELSE "false")
      [] v.k = "int" -> IntStr(v.n)
      [] v.k = "float" -> v.lex
      [] v.k = "str" -> JsonStr(v.s)
      [] v.k = "list" ->
            IF v.items = <<>> THEN "[]"
            ELSE OpenBracket("[", indent, level + 1)
                 \o DumpItems(v.items, 1, indent, level + 1)
                 \o CloseBracket("]", indent, level + 1)
      [] v.k = "dict" ->
            IF v.members = <<>> THEN "{}"
            ELSE OpenBracket("{", indent, level + 1)
                 \o DumpMembers(v.members, 1, indent, level + 1)
                 \o CloseBracket("}", indent, level + 1)

json_dumps(v) == Dumps(v, NoIndent, 0)

json_dumps_indent(v, indent) == Dumps(v, indent, 0)

-----------------------------------------------------------------------------
(* Python exceptions and the operations of lines 102 and 119-125 *)

\* an exception: its class and its args (str(e) is built from them).  The
\* messages of the built-in errors are worded as CPython 3.11 words them.
Exception(type, args) == [type |-> type, args |-> args]

\* the classes that derive from BaseException but not from Exception
NonExceptionClasses == {"SystemExit", "KeyboardInterrupt", "GeneratorExit"}

IsException(e) == e.type \notin NonExceptionClasses

\* repr(e) and str(e) of an exception with at most one argument.  The
\* KeyError raised below is built with its argument already repr'd, which is
\* what KeyError.__str__ prints.
PyRepr(e) ==
    e.type \o "(" \o (IF e.args = <<>> THEN "" ELSE "'" \o e.args[1] \o "'") \o ")"

PyStr(e) == IF e.args = <<>> THEN "" ELSE e.args[1]

\* an evaluation either yields a value or raises
Ok(v) == [ok |-> TRUE, val |-> v]
Raises(e) == [ok |-> FALSE, exc |-> e]

HasKey(d, key) == \E i \in 1..Len(d.members) : d.members[i].key = key

Lookup(d, key) ==
    d.members[CHOOSE i \in 1..Len(d.members) : d.members[i].key = key].val

NotSubscriptable(v) ==
    Exception("TypeError", <<"'" \o TypeName(v) \o "' object is not subscriptable">>)

\* v.get(key, default)
PyGet(v, key, default) ==
    IF v.k = "dict"
    THEN Ok(IF HasKey(v, key) THEN Lookup(v, key) ELSE default)
    ELSE Raises(Exception("AttributeError",
                   <<"'" \o TypeName(v) \o "' object has no attribute 'get'">>))

\* v[0]
PyIndex0(v) ==
    CASE v.k = "list" ->
            IF v.items = <<>>
            THEN Raises(Exception("IndexError", <<"list index out of range">>))
            ELSE Ok(v.items[1])
      [] v.k = "str" ->
            IF v.s = ""
            THEN Raises(Exception("IndexError", <<"string index out of range">>))
            ELSE Ok(JStr(SubSeq(v.s, 1, 1)))
      [] v.k = "dict" -> Raises(Exception("KeyError", <<"0">>))
      [] OTHER -> Raises(NotSubscriptable(v))

\* key in v, for a str key
PyIn(key, v) ==
    CASE v.k = "dict" -> Ok(HasKey(v, key))
      [] v.k = "list" -> Ok(\E i \in 1..Len(v.items) : v.items[i] = JStr(key))
      [] v.k = "str" -> Ok(StrContains(v.s, key))
      [] OTHER -> Raises(Exception("TypeError",
                     <<"argument of type '" \o TypeName(v) \o "' is not iterable">>))

\* v[key], for a str key
PyItem(v, key) ==
    CASE v.k = "dict" ->
            IF HasKey(v, key) THEN Ok(Lookup(v, key))
            ELSE Raises(Exception("KeyError", <<"'" \o key \o "'">>))
      [] v.k = "list" -> Raises(Exception("TypeError",
                            <<"list indices must be integers or slices, not str">>))
      [] v.k = "str" -> Raises(Exception("TypeError",
                            <<"string indices must be integers, not 'str'">>))
      [] OTHER -> Raises(NotSubscriptable(v))

NoResponseText == "No response from Bedrock"

NoValidResponsePrefix == "No valid response found. Raw response: "

PrettyIndent == 2

\* v[-1]
PyIndexLast(v) ==
    IF v.k = "list" /\ v.items # <<>> THEN Ok(v.items[Len(v.items)]) ELSE PyIndex0(v)

\* line 102 reading the last entry of content, not the first
MessagesExtractLast(rb) ==
    LET content == PyGet(rb, "content", JList(<<JDict(<<>>)>>))
    IN  IF ~content.ok THEN content
        ELSE LET last == PyIndexLast(content.val)
             IN  IF ~last.ok THEN last
                 ELSE PyGet(last.val, "text", JStr(NoResponseText))

\* line 102: response_body.get('content', [{}])[0].get('text', '...')
MessagesExtract(rb) ==
    LET content == PyGet(rb, "content", JList(<<JDict(<<>>)>>))
    IN  IF ~content.ok THEN content
        ELSE LET first == PyIndex0(content.val)
             IN  IF ~first.ok THEN first
                 ELSE PyGet(first.val, "text", JStr(NoResponseText))

\* line 120: 'output' in response_body and 'text' in response_body['output']
HasOutputText(rb) ==
    LET hasOutput == PyIn("output", rb)
    IN  IF ~hasOutput.ok THEN hasOutput
        ELSE IF ~hasOutput.val THEN Ok(FALSE)
        ELSE LET output == PyItem(rb, "output")
             IN  IF ~output.ok THEN output ELSE PyIn("text", output.val)

\* lines 119-125
CompletionExtract(rb) ==
    LET hasCompletion == PyIn("completion", rb)
    IN  IF ~hasCompletion.ok THEN hasCompletion
        ELSE IF hasCompletion.val THEN PyItem(rb, "completion")
        ELSE LET hasText == HasOutputText(rb)
             IN  IF ~hasText.ok THEN hasText
                 ELSE IF hasText.val
                 THEN LET output == PyItem(rb, "output")
                      IN  IF ~output.ok THEN output ELSE PyItem(output.val, "text")
                 ELSE Ok(JStr(NoValidResponsePrefix
                              \o json_dumps_indent(rb, PrettyIndent)))

-----------------------------------------------------------------------------
(* Inputs and environment *)

\* line 61: the default of max_tokens
DefaultMaxTokens == 300

Prompts == {"hi", "Say \"hi\"\nplease"}

Regions == {"us-west-2", "eu-central-1"}

PadChars == {"t", "."}

RECURSIVE Pads(_)
Pads(n) ==
    IF n = 0 THEN {""}
    ELSE Pads(n - 1) \cup {p \o c : p \in Pads(n - 1), c \in PadChars}

ModelIdCores ==
    {"claude-3-sonnet", "claude-3-5-sonnet", "claude-3-sonne", "Claude-3-Sonnet"}

\* the (prefix, suffix) pairs of at most MaxPad characters in all
PadPairs ==
    {pq \in Pads(MaxPad) \X Pads(MaxPad) : Len(pq[1]) + Len(pq[2]) <= MaxPad}

\* a core with padding around it, and three identifiers of the service's
\* catalogue
ModelIds ==
    {pq[1] \o c \o pq[2] : pq \in PadPairs, c \in ModelIdCores}
    \cup {"anthropic.claude-3-sonnet-20240229-v1:0",
          "anthropic.claude-3-5-sonnet-20240620-v1:0",
          "anthropic.claude-v2"}

\* module.params once AnsibleModule has validated the arguments: the three
\* required strings, and max_tokens as given or its default
ParamSets ==
    {[prompt |-> p, model_id |-> m, region |-> r, max_tokens |-> t] :
        p \in Prompts, m \in ModelIds, r \in Regions,
        t \in (1..MaxTokensArg) \cup {DefaultMaxTokens}}

\* what boto3.client may raise
ClientErrors ==
    {Exception("NoRegionError", <<"You must specify a region.">>),
     Exception("UnknownServiceError", <<>>)}

\* what invoke_model (or reading its body) may raise
InvokeErrors ==
    {Exception("ClientError",
        <<"An error occurred (ThrottlingException) when calling the InvokeModel operation: Too many requests">>),
     Exception("NoCredentialsError", <<"Unable to locate credentials">>)}

\* what json.loads raises on a body that is not JSON
JSONDecodeError ==
    Exception("JSONDecodeError", <<"Expecting value: line 1 column 1 (char 0)">>)

SystemExit(code) == Exception("SystemExit", <<IntStr(code)>>)

\* entries of a content list
TextBlock(t) == JDict(<<Member("type", JStr("text")), Member("text", JStr(t))>>)

ContentEntries == {JDict(<<Member("text", JStr("hello"))>>), JStr("text")}

RECURSIVE Lists(_, _)
Lists(S, n) ==
    IF n = 0 THEN {<<>>}
    ELSE Lists(S, n - 1) \cup {Append(l, x) : l \in Lists(S, n - 1), x \in S}

\* values of a "content" field
ContentValues ==
    {JList(l) : l \in Lists(ContentEntries, MaxContent)}
    \cup {JList(<<TextBlock("second"), TextBlock("third")>>),
          JList(<<JDict(<<Member("type", JStr("image"))>>)>>),
          JList(<<JDict(<<Member("type", JStr("image"))>>),
                  JDict(<<Member("text", JStr("hello"))>>)>>),
          JList(<<JDict(<<Member("text", JNull)>>)>>),
          JList(<<JDict(<<>>)>>), JList(<<JNull>>), JList(<<JList(<<>>)>>),
          JStr("abc"), JStr(""), JDict(<<>>), JNull, JInt(5)}

\* values of a "completion" field
CompletionValues == {JStr("hi"), JNull}

\* values of an "output" field
OutputValues ==
    {JDict(<<Member("text", JStr("hi2"))>>), JDict(<<>>),
     JDict(<<Member("text", JNull)>>),
     JStr("plain"), JStr("some text"), JNull, JInt(5), JBool(TRUE),
     JList(<<JStr("text")>>), JList(<<>>)}

\* the JSON documents the service may answer with
ResponseBodies ==
    {JDict(<<>>), JDict(<<Member("id", JStr("msg_1"))>>)}
    \cup {JDict(<<Member("content", c)>>) : c \in ContentValues}
    \cup {JDict(<<Member("completion", c)>>) : c \in CompletionValues}
    \cup {JDict(<<Member("output", o)>>) : o \in OutputValues}
    \cup {JDict(<<Member("output", o), Member("completion", c)>>) :
             o \in {JDict(<<Member("text", JStr("hi2"))>>), JNull, JStr("some text")},
             c \in CompletionValues}
    \cup {JDict(<<Member("content", JList(<<JDict(<<Member("text", JStr("hello"))>>)>>)),
                  Member("completion", JStr("hi"))>>)}
    \cup {JNull, JInt(5), JBool(FALSE), JFloat("0.5"),
          JStr("completion output"), JStr("the output text"), JStr("x"),
          JList(<<>>), JList(<<JStr("completion")>>), JList(<<JStr("output")>>),
          JList(<<JDict(<<Member("text", JStr("hello"))>>)>>)}

\* what invoke_model returns: a body that json.loads parses to val, or one
\* it rejects
Responses ==
    {[parses |-> TRUE, val |-> v] : v \in ResponseBodies} \cup {[parses |-> FALSE]}

\* a local that is not bound yet
Unbound == [k |-> "unbound"]

-----------------------------------------------------------------------------
(* run_module *)

\* lines 64-67
InitialResult == [changed |-> FALSE, bedrock_response |-> JStr("")]

\* module.exit_json(**kwargs) and module.fail_json(msg=..., **kwargs): what
\* the framework is handed
SuccessReport(kwargs) ==
    [kind |-> "exit_json", changed |-> kwargs.changed,
     bedrock_response |-> kwargs.bedrock_response]

FailureReport(msg, kwargs) ==
    [kind |-> "fail_json", msg |-> msg, changed |-> kwargs.changed,
     bedrock_response |-> kwargs.bedrock_response]

\* a bare except clause, which takes SystemExit too
BareExceptCatches(e) == e.type = e.type

\* line 128: except Exception
ExceptClauseCatches(e) == IsException(e)

\* the test of line 86 without its second operand
UsesMessagesAPIClaude3Only(mid) == StrContains(mid, "claude-3-sonnet")

\* line 86: "claude-3-sonnet" in model_id or "claude-3-5-sonnet" in model_id
UsesMessagesAPI(mid) ==
    StrContains(mid, "claude-3-sonnet") \/ StrContains(mid, "claude-3-5-sonnet")

\* lines 88-94: the dict handed to json.dumps
MessagesRequest(p, mt) ==
    JDict(<<Member("anthropic_version", JStr("bedrock-2023-05-31")),
            Member("max_tokens", JInt(mt)),
            Member("messages",
                   JList(<<JDict(<<Member("role", JStr("user")),
                                   Member("content", JStr(p))>>)>>))>>)

\* the dict of lines 105-111 with the default in place of max_tokens
CompletionRequestDefaultTokens(p, mt) ==
    JDict(<<Member("prompt", JStr("\n\nHuman: " \o p \o "\n\nAssistant:")),
            Member("max_tokens_to_sample", JInt(DefaultMaxTokens)),
            Member("temperature", JFloat("0.5")),
            Member("top_p", JInt(1)),
            Member("stop_sequences", JList(<<JStr("\n\nHuman:")>>))>>)

\* lines 105-111: the dict handed to json.dumps
CompletionRequest(p, mt) ==
    JDict(<<Member("prompt", JStr("\n\nHuman: " \o p \o "\n\nAssistant:")),
            Member("max_tokens_to_sample", JInt(mt)),
            Member("temperature", JFloat("0.5")),
            Member("top_p", JInt(1)),
            Member("stop_sequences", JList(<<JStr("\n\nHuman:")>>))>>)

\* lines 95-100 and 112-117: the keyword arguments of invoke_model
InvokeModelCall(b, mid) ==
    [body |-> b, modelId |-> mid, accept |-> "application/json",
     contentType |-> "application/json"]

Init ==
    /\ pc = "start"
    /\ check_mode \in BOOLEAN
    /\ params \in ParamSets
    /\ prompt = ""
    /\ model_id = ""
    /\ region = ""
    /\ max_tokens = 0
    /\ result = InitialResult
    /\ body = ""
    /\ response = Unbound
    /\ response_body = Unbound
    /\ exc = Unbound
    /\ raised_at = "nowhere"
    /\ clients = <<>>
    /\ calls = <<>>
    /\ reports = <<>>
    /\ escaped = FALSE

\* an exception raised inside the try block (lines 82-127): the handler of
\* line 128 takes it if its clause matches, otherwise it leaves run_module
RaiseInTry(e, site) ==
    /\ exc' = e
    /\ raised_at' = site
    /\ pc' = IF ExceptClauseCatches(e) THEN "except" ELSE "done"
    /\ escaped' = (escaped \/ (~ExceptClauseCatches(e) /\ e.type # "SystemExit"))

\* lines 74-75: exit_json reports and ends the process (SystemExit, raised
\* outside the try block)
CheckMode ==
    /\ pc = "start"
    /\ check_mode
    /\ reports' = Append(reports, SuccessReport(result))
    /\ exc' = SystemExit(0)
    /\ raised_at' = "exit_json"
    /\ pc' = "done"
    /\ UNCHANGED <<check_mode, params, prompt, model_id, region, max_tokens,
                   result, body, response, response_body, clients, calls, escaped>>

\* ReadParams without the check-mode exit before it
ReadParamsInCheckMode ==
    /\ pc = "start"
    /\ prompt' = params.prompt
    /\ model_id' = params.model_id
    /\ region' = params.region
    /\ max_tokens' = params.max_tokens
    /\ pc' = "client"
    /\ UNCHANGED <<check_mode, params, result, body, response, response_body,
                   exc, raised_at, clients, calls, reports, escaped>>

\* lines 77-80
ReadParams ==
    /\ pc = "start"
    /\ ~check_mode
    /\ prompt' = params.prompt
    /\ model_id' = params.model_id
    /\ region' = params.region
    /\ max_tokens' = params.max_tokens
    /\ pc' = "client"
    /\ UNCHANGED <<check_mode, params, result, body, response, response_body,
                   exc, raised_at, clients, calls, reports, escaped>>

\* line 83
BuildClient ==
    /\ pc = "client"
    /\ clients' = Append(clients, [service_name |-> "bedrock-runtime",
                                   region_name |-> region])
    /\ \/ /\ pc' = "select"
          /\ UNCHANGED <<exc, raised_at, escaped>>
       \/ \E e \in ClientErrors : RaiseInTry(e, "client")
    /\ UNCHANGED <<check_mode, params, prompt, model_id, region, max_tokens,
                   result, body, response, response_body, calls, reports>>

\* lines 86-94
BuildMessagesBody ==
    /\ pc = "select"
    /\ UsesMessagesAPI(model_id)
    /\ body' = json_dumps(MessagesRequest(prompt, max_tokens))
    /\ pc' = "invoke_messages"
    /\ UNCHANGED <<check_mode, params, prompt, model_id, region, max_tokens,
                   result, response, response_body, exc, raised_at, clients,
                   calls, reports, escaped>>

\* lines 103-111
BuildCompletionBody ==
    /\ pc = "select"
    /\ ~UsesMessagesAPI(model_id)
    /\ body' = json_dumps(CompletionRequest(prompt, max_tokens))
    /\ pc' = "invoke_completion"
    /\ UNCHANGED <<check_mode, params, prompt, model_id, region, max_tokens,
                   result, response, response_body, exc, raised_at, clients,
                   calls, reports, escaped>>

\* bedrock.invoke_model(...) at `at`, then response['body'].read()
InvokeModel(at, next) ==
    /\ pc = at
    /\ calls' = Append(calls, InvokeModelCall(body, model_id))
    /\ \/ \E r \in Responses :
             /\ response' = r
             /\ pc' = next
             /\ UNCHANGED <<exc, raised_at, escaped>>
       \/ \E e \in InvokeErrors :
             /\ RaiseInTry(e, "invoke")
             /\ UNCHANGED response
    /\ UNCHANGED <<check_mode, params, prompt, model_id, region, max_tokens,
                   result, body, response_body, clients, reports>>

\* json.loads(...) at `at`
LoadResponse(at, next) ==
    /\ pc = at
    /\ IF response.parses
       THEN /\ response_body' = response.val
            /\ pc' = next
            /\ UNCHANGED <<exc, raised_at, escaped>>
       ELSE /\ RaiseInTry(JSONDecodeError, "loads")
            /\ UNCHANGED response_body
    /\ UNCHANGED <<check_mode, params, prompt, model_id, region, max_tokens,
                   result, body, response, clients, calls, reports>>

\* the assignment storing the raw response before the extraction raises
StoreRawBeforeRaise(at, extracted) ==
    /\ pc = at
    /\ IF extracted.ok
       THEN /\ result' = [result EXCEPT !.bedrock_response = extracted.val]
            /\ pc' = "exit"
            /\ UNCHANGED <<exc, raised_at, escaped>>
       ELSE /\ RaiseInTry(extracted.exc, "extract")
            /\ result' = [result EXCEPT !.bedrock_response = response_body]
    /\ UNCHANGED <<check_mode, params, prompt, model_id, region, max_tokens,
                   body, response, response_body, clients, calls, reports>>

\* result['bedrock_response'] = <extracted>: the right-hand side is
\* evaluated first, so result is untouched when it raises
StoreExtracted(at, extracted) ==
    /\ pc = at
    /\ IF extracted.ok
       THEN /\ result' = [result EXCEPT !.bedrock_response = extracted.val]
            /\ pc' = "exit"
            /\ UNCHANGED <<exc, raised_at, escaped>>
       ELSE /\ RaiseInTry(extracted.exc, "extract")
            /\ UNCHANGED result
    /\ UNCHANGED <<check_mode, params, prompt, model_id, region, max_tokens,
                   body, response, response_body, clients, calls, reports>>

\* lines 95-100
InvokeMessages == InvokeModel("invoke_messages", "loads_messages")

\* line 101
LoadMessages == LoadResponse("loads_messages", "extract_messages")

\* line 102
ExtractMessages == StoreExtracted("extract_messages", MessagesExtract(response_body))

\* lines 112-117
InvokeCompletion == InvokeModel("invoke_completion", "loads_completion")

\* line 118
LoadCompletion == LoadResponse("loads_completion", "extract_completion")

\* lines 119-125
ExtractCompletion ==
    StoreExtracted("extract_completion", CompletionExtract(response_body))

\* line 127: exit_json reports and raises SystemExit inside the try block
ExitJson ==
    /\ pc = "exit"
    /\ reports' = Append(reports, SuccessReport(result))
    /\ RaiseInTry(SystemExit(0), "exit_json")
    /\ UNCHANGED <<check_mode, params, prompt, model_id, region, max_tokens,
                   result, body, response, response_body, clients, calls>>

\* lines 128-129: fail_json reports and ends the process (SystemExit, raised
\* inside the handler, which nothing encloses)
FailJson ==
    /\ pc = "except"
    /\ reports' = Append(reports, FailureReport(PyStr(exc), result))
    /\ pc' = "done"
    /\ UNCHANGED <<check_mode, params, prompt, model_id, region, max_tokens,
                   result, body, response, response_body, exc, raised_at,
                   clients, calls, escaped>>

Next ==
    \/ CheckMode
    \/ ReadParams
    \/ BuildClient
    \/ BuildMessagesBody
    \/ BuildCompletionBody
    \/ InvokeMessages
    \/ LoadMessages
    \/ ExtractMessages
    \/ InvokeCompletion
    \/ LoadCompletion
    \/ ExtractCompletion
    \/ ExitJson
    \/ FailJson

Spec == Init /\ [][Next]_vars

-----------------------------------------------------------------------------
(* Properties *)

Done == pc = "done"

\* the schema the claims name for the model_id of the invocation
NamesMessagesModel ==
    \/ StrContains(params.model_id, "claude-3-sonnet")
    \/ StrContains(params.model_id, "claude-3-5-sonnet")

EmptySuccess ==
    [kind |-> "exit_json", changed |-> FALSE, bedrock_response |-> JStr("")]

Success(v) == [kind |-> "exit_json", changed |-> FALSE, bedrock_response |-> v]

Failure(msg) ==
    [kind |-> "fail_json", msg |-> msg, changed |-> FALSE,
     bedrock_response |-> JStr("")]

\* C1: in check mode, whatever the parameters, run_module builds no client,
\* calls invoke_model never, reports no failure, and ends with one success
\* report whose bedrock_response is '' and whose changed is false.
C1_CheckModeNoRemoteCall ==
    check_mode =>
        /\ clients = <<>>
        /\ calls = <<>>
        /\ pc \in {"start", "done"}
        /\ \A i \in 1..Len(reports) : reports[i].kind # "fail_json"
        /\ Done => reports = <<EmptySuccess>>

C1_Witness == check_mode /\ Done /\ reports = <<EmptySuccess>>

\* str(e) of each error boto3.client and invoke_model raise in the model
RaisedErrorText ==
    CASE exc.type = "NoRegionError" -> "You must specify a region."
      [] exc.type = "UnknownServiceError" -> ""
      [] exc.type = "ClientError" ->
            "An error occurred (ThrottlingException) when calling the InvokeModel operation: Too many requests"
      [] exc.type = "NoCredentialsError" -> "Unable to locate credentials"

\* C2: when boto3.client or invoke_model raises (on either branch), the
\* error does not leave run_module, nothing more is called remotely, and
\* the run ends with one failure report whose msg is str(e).
C2_RaisedErrorReportedOnce ==
    raised_at \in {"client", "invoke"} =>
        /\ ~escaped
        /\ pc \in {"except", "done"}
        /\ Len(clients) = 1
        /\ Len(calls) = (IF raised_at = "invoke" THEN 1 ELSE 0)
        /\ Done => reports = <<Failure(RaisedErrorText)>>

C2_Witness ==
    /\ Done
    /\ raised_at = "invoke"
    /\ ~NamesMessagesModel
    /\ reports = <<Failure("Unable to locate credentials")>>

\* the remote call the claims name for the Messages schema, its body as the
\* JSON text on the wire
ExpectedMessagesCall ==
    [body |-> "{\"anthropic_version\": \"bedrock-2023-05-31\", \"max_tokens\": "
              \o IntStr(params.max_tokens)
              \o ", \"messages\": [{\"role\": \"user\", \"content\": "
              \o JsonStr(params.prompt) \o "}]}",
     modelId |-> params.model_id,
     accept |-> "application/json",
     contentType |-> "application/json"]

\* the remote call the claims name for the Completion schema, its body as
\* the JSON text on the wire
ExpectedCompletionCall ==
    [body |-> "{\"prompt\": "
              \o JsonStr("\n\nHuman: " \o params.prompt \o "\n\nAssistant:")
              \o ", \"max_tokens_to_sample\": " \o IntStr(params.max_tokens)
              \o ", \"temperature\": 0.5, \"top_p\": 1"
              \o ", \"stop_sequences\": [\"\\n\\nHuman:\"]}",
     modelId |-> params.model_id,
     accept |-> "application/json",
     contentType |-> "application/json"]

\* the run got as far as invoke_model
PastInvoke ==
    pc \in {"loads_messages", "extract_messages", "loads_completion",
            "extract_completion", "exit"}
    \/ raised_at \in {"invoke", "loads", "extract"}
    \/ (Done /\ ~check_mode /\ raised_at = "exit_json")

\* C3: for a model_id containing "claude-3-sonnet" or "claude-3-5-sonnet"
\* anywhere, the one remote call carries the Messages body (anthropic_version
\* "bedrock-2023-05-31", max_tokens as given, one user message holding the
\* prompt) and modelId = model_id.
C3_MessagesRequestBody ==
    NamesMessagesModel =>
        /\ \A i \in 1..Len(calls) : calls[i] = ExpectedMessagesCall
        /\ PastInvoke => Len(calls) = 1

C3_Witness ==
    /\ Done
    /\ params.model_id = "tclaude-3-5-sonnet"
    /\ params.max_tokens = DefaultMaxTokens
    /\ calls = <<ExpectedMessagesCall>>
    /\ reports # <<>> /\ reports[1].kind = "exit_json"

\* C4: for a model_id containing neither substring, the one remote call
\* carries the Completion body (the prompt between "\n\nHuman: " and
\* "\n\nAssistant:", max_tokens_to_sample as given, temperature 0.5, top_p 1,
\* stop_sequences ["\n\nHuman:"]), and never the Messages body.
C4_CompletionRequestBody ==
    ~NamesMessagesModel =>
        /\ \A i \in 1..Len(calls) :
              /\ calls[i] = ExpectedCompletionCall
              /\ calls[i].body # ExpectedMessagesCall.body
        /\ PastInvoke => Len(calls) = 1

C4_Witness ==
    /\ Done
    /\ params.model_id = "claude-3-sonne."
    /\ params.max_tokens = 1
    /\ calls = <<ExpectedCompletionCall>>
    /\ reports # <<>> /\ reports[1].kind = "exit_json"

\* the response was parsed on the Messages branch / the Completion branch
\* and the run has ended
MessagesRunEnded ==
    Done /\ NamesMessagesModel /\ response_body # Unbound

CompletionRunEnded ==
    Done /\ ~NamesMessagesModel /\ response_body # Unbound

IsObject(v) == v.k = "dict"

\* C5: on the Messages branch a parsed response {"content": []}, or one
\* without a content field, ends in a success report whose bedrock_response
\* is "No response from Bedrock", not in a failure.
C5_EmptyOrMissingContentFallsBack ==
    (/\ MessagesRunEnded
     /\ IsObject(response_body)
     /\ \/ ~HasKey(response_body, "content")
        \/ Lookup(response_body, "content") = JList(<<>>))
    => reports = <<Success(JStr("No response from Bedrock"))>>

\* the part of C5 the code keeps: a response object without a content field
C5_MissingContentFallsBack ==
    (/\ MessagesRunEnded
     /\ IsObject(response_body)
     /\ ~HasKey(response_body, "content"))
    => reports = <<Success(JStr("No response from Bedrock"))>>

\* C6: once the body has parsed as JSON, whatever its shape and on either
\* branch, the run ends in a success report, never in a failure report.
C6_ParsedResponseNeverFails ==
    (Done /\ response_body # Unbound) =>
        /\ Len(reports) = 1
        /\ reports[1].kind = "exit_json"

\* the text C7 names for a response object on the Completion branch
CompletionTextByOrder(rb) ==
    IF HasKey(rb, "completion") THEN Lookup(rb, "completion")
    ELSE IF /\ HasKey(rb, "output")
            /\ IsObject(Lookup(rb, "output"))
            /\ HasKey(Lookup(rb, "output"), "text")
         THEN Lookup(Lookup(rb, "output"), "text")
         ELSE JStr("No valid response found. Raw response: "
                   \o json_dumps_indent(rb, 2))

\* C7: on the Completion branch, for every parsed response object, the
\* reported text is completion if present, else output.text if present,
\* else "No valid response found. Raw response: " and the response
\* pretty-printed with indent 2.
C7_CompletionExtractionOrder ==
    (CompletionRunEnded /\ IsObject(response_body)) =>
        reports = <<Success(CompletionTextByOrder(response_body))>>

\* the part of C7 the code keeps: response objects whose output, when
\* present, is an object
C7_OrderForObjectOutput ==
    (/\ CompletionRunEnded
     /\ IsObject(response_body)
     /\ HasKey(response_body, "output") => IsObject(Lookup(response_body, "output")))
    => reports = <<Success(CompletionTextByOrder(response_body))>>

\* the first entry of a non-empty content list that is an object
FirstContentObject(rb) ==
    /\ IsObject(rb)
    /\ HasKey(rb, "content")
    /\ Lookup(rb, "content").k = "list"
    /\ Lookup(rb, "content").items # <<>>
    /\ IsObject(Lookup(rb, "content").items[1])

\* C8: on the Messages branch, when the first entry of a non-empty content
\* list is an object, the run ends in a success report with changed = false
\* whose bedrock_response is that entry's text, or "No response from
\* Bedrock" when the entry has no text field.
C8_MessagesTextExtracted ==
    (MessagesRunEnded /\ FirstContentObject(response_body)) =>
        LET first == Lookup(response_body, "content").items[1]
        IN  reports = <<Success(IF HasKey(first, "text")
                                THEN Lookup(first, "text")
                                ELSE JStr("No response from Bedrock"))>>

C8_Witness ==
    /\ MessagesRunEnded
    /\ response_body =
         JDict(<<Member("content",
                        JList(<<JDict(<<Member("text", JStr("hello"))>>),
                                JStr("text")>>))>>)
    /\ reports = <<Success(JStr("hello"))>>

\* C9: a run ends with exactly one terminal report, a success or a failure,
\* after at most one invoke_model call; the success report of line 127 is
\* not followed by a failure report from the handler, and a run that has
\* not ended can take its next step.
C9_ExactlyOneReport ==
    /\ Len(reports) <= 1
    /\ Len(calls) <= 1
    /\ ~escaped
    /\ Done <=> Len(reports) = 1
    /\ Done \/ ENABLED Next

C9_Witness ==
    /\ Done
    /\ raised_at = "exit_json"
    /\ Len(calls) = 1
    /\ Len(reports) = 1
    /\ reports[1].kind = "exit_json"
    /\ reports[1].bedrock_response = JStr("hi2")

\* C10: every failure report carries changed = false and
\* bedrock_response = '', and changed is false in every report.
C10_FailureCarriesInitialResult ==
    \A i \in 1..Len(reports) :
        /\ reports[i].changed = FALSE
        /\ reports[i].kind = "fail_json" =>
              reports[i].bedrock_response = JStr("")

C10_Witness ==
    /\ Done
    /\ raised_at = "extract"
    /\ response_body = JDict(<<Member("output", JStr("some text"))>>)
    /\ reports = <<Failure("string indices must be integers, not 'str'")>>

=============================================================================
